---- MODULE Spec2Model ----
(***************************************************************************)
(* Playground instance store (zustand) and the run orchestration of the    *)
(* dataset-examples table that consumes it.                                *)
(*                                                                         *)
(* Encoding of JavaScript values:                                          *)
(*   null of a numeric field (activeRunId)            -> Null  (-1)        *)
(*   a message object without an id property          -> Null  (-1)        *)
(*   null / undefined of a string field               -> "null"/"undefined"*)
(*   a key that is not present in a partial object    -> Absent            *)
(*   a property holding an array that is not present  -> << >>             *)
(***************************************************************************)
EXTENDS Integers, Sequences, FiniteSets, TLC

VARIABLES
    instances,            \* PlaygroundState.instances
    operationType,        \* PlaygroundState.operationType
    streaming,            \* PlaygroundState.streaming
    templateLanguage,     \* PlaygroundState.templateLanguage
    variablesValueCache,  \* PlaygroundState.input.variablesValueCache
    experimentId,         \* PlaygroundState.experimentId
    playgroundInstanceId, \* module-level counter
    playgroundRunId,      \* module-level counter
    playgroundMessageId,  \* module-level counter
    playgroundToolId,     \* module-level counter
    mounted,              \* the table component is mounted
    effectDep,            \* hasSomeRunIds as the run effect last saw it
    requests,             \* generation requests in flight
    nextRequestId,        \* identity of the next request issued
    exampleResponsesMap,  \* the table's React state
    lastOp,               \* history: the operation that produced this state
    everHeld,             \* history: ids an instance of this store holds or held
    lastRunOf,            \* history: instance id -> run id last assigned to it
    arrived,              \* history: chunks merged into exampleResponsesMap, in order
    failed                \* history: ids whose request failed since the last run start

storeVars == <<instances, operationType, streaming, templateLanguage,
               variablesValueCache, experimentId>>
counterVars == <<playgroundInstanceId, playgroundRunId, playgroundMessageId,
                 playgroundToolId>>
tableVars == <<mounted, effectDep, requests, nextRequestId, exampleResponsesMap>>
vars == <<instances, operationType, streaming, templateLanguage,
          variablesValueCache, experimentId, playgroundInstanceId,
          playgroundRunId, playgroundMessageId, playgroundToolId, mounted,
          effectDep, requests, nextRequestId, exampleResponsesMap, lastOp,
          everHeld, lastRunOf, arrived, failed>>

----------------------------------------------------------------------------
(* Bounds of the model *)

MaxInstances == 3
MaxInstanceId == 4
MaxRunId == 2
MaxMessageId == 7
MaxParams == 3
MaxRequests == 2
MaxTableInstances == 2
MaxTableContentLen == 2
MaxArrived == 3

(* Encoding *)

Null == -1
Absent == "absent"

(* Imported constants *)

DEFAULT_CHAT_ROLE == "user"
DEFAULT_MODEL_NAME == "gpt-4o"
DEFAULT_MODEL_PROVIDER == "OPENAI"
Mustache == "mustache"

----------------------------------------------------------------------------
(* Helpers over sequences (Array.prototype.map / filter / some / find) *)

Range(s) == {s[i] : i \in DOMAIN s}

Ids(insts) == {insts[i].id : i \in DOMAIN insts}

(* lastOp: the operation's name, the id it was given (addInstance: the id *)
(* it handed out), and for addInstance whether no instance of the store   *)
(* holds or held that id.                                                 *)
NoOp == [name |-> "init", id |-> Null, fresh |-> TRUE]
Op(n, i) == [name |-> n, id |-> i, fresh |-> TRUE]

(* The store as createPlaygroundStore(initialProps) returned it. *)
Created(initialProps) ==
    [name |-> "createPlaygroundStore", id |-> NoOp.id, fresh |-> NoOp.fresh,
     initialProps |-> initialProps]


----------------------------------------------------------------------------
(* Templates and instance construction *)

generateChatCompletionTemplate(mid) ==
    [type |-> "chat",
     messages |-> <<[id |-> mid, role |-> "system", content |-> "You are a chatbot"],
                    [id |-> mid + 1, role |-> "user", content |-> "{{question}}"]>>,
     prompt |-> "undefined"]

DEFAULT_TEXT_COMPLETION_TEMPLATE ==
    [type |-> "text_completion", messages |-> << >>, prompt |-> "{{question}}"]

createPlaygroundInstance(iid, mid) ==
    [id |-> iid,
     template |-> generateChatCompletionTemplate(mid),
     model |-> [provider |-> DEFAULT_MODEL_PROVIDER,
                modelName |-> DEFAULT_MODEL_NAME,
                endpoint |-> "undefined",
                apiVersion |-> "undefined",
                invocationParameters |-> << >>],
     tools |-> << >>,
     toolChoice |-> "auto",
     output |-> "undefined",
     spanId |-> "null",
     activeRunId |-> Null,
     messages |-> << >>]

----------------------------------------------------------------------------
(* Store operations as functions from the current snapshot to the next *)

setOperationTypeFirstOnly(insts, type, mid) ==
    [i \in DOMAIN insts |->
        IF i = 1
        THEN [insts[i] EXCEPT !.template =
                 IF type = "chat" THEN generateChatCompletionTemplate(mid)
                 ELSE DEFAULT_TEXT_COMPLETION_TEMPLATE]
        ELSE insts[i]]

setOperationType(insts, type, mid) ==
    [i \in DOMAIN insts |->
        [insts[i] EXCEPT !.template =
            IF type = "chat" THEN generateChatCompletionTemplate(mid + 2 * (i - 1))
            ELSE DEFAULT_TEXT_COMPLETION_TEMPLATE]]

(* The snapshots setOperationType publishes to the store's subscribers, *)
(* one per set() call: set({ instances }), then set({ operationType }).  *)
setOperationTypeSnapshots(insts, current, type, mid) ==
    <<[instances |-> setOperationType(insts, type, mid), operationType |-> current],
      [instances |-> setOperationType(insts, type, mid), operationType |-> type]>>

addInstanceKeepingId(insts, newId) ==
    IF insts = << >> THEN insts ELSE Append(insts, insts[1])

addInstance(insts, newId) ==
    IF insts = << >> THEN insts
    ELSE Append(insts, [insts[1] EXCEPT !.id = newId,
                                        !.activeRunId = Null,
                                        !.spanId = "null"])

deleteInstanceAndLater(insts, instanceId) ==
    SelectSeq(insts, LAMBDA inst : inst.id < instanceId)

deleteInstance(insts, instanceId) ==
    SelectSeq(insts, LAMBDA inst : inst.id # instanceId)

addMessageAnyTemplate(insts, playgroundInstanceIdArg) ==
    [i \in DOMAIN insts |->
        IF insts[i].id = playgroundInstanceIdArg
        THEN [insts[i] EXCEPT !.messages =
                 insts[i].template.messages
                     \o <<[id |-> Null, role |-> DEFAULT_CHAT_ROLE,
                           content |-> "{question}"]>>]
        ELSE insts[i]]

addMessage(insts, playgroundInstanceIdArg) ==
    [i \in DOMAIN insts |->
        IF /\ insts[i].id = playgroundInstanceIdArg
           /\ insts[i].template.type = "chat"
        THEN [insts[i] EXCEPT !.messages =
                 insts[i].template.messages
                     \o <<[id |-> Null, role |-> DEFAULT_CHAT_ROLE,
                           content |-> "{question}"]>>]
        ELSE insts[i]]

ApplyPatch(inst, patch) ==
    [id |-> IF "id" \in DOMAIN patch THEN patch.id ELSE inst.id,
     template |-> IF "template" \in DOMAIN patch THEN patch.template ELSE inst.template,
     model |-> IF "model" \in DOMAIN patch THEN patch.model ELSE inst.model,
     tools |-> IF "tools" \in DOMAIN patch THEN patch.tools ELSE inst.tools,
     toolChoice |-> IF "toolChoice" \in DOMAIN patch THEN patch.toolChoice ELSE inst.toolChoice,
     output |-> IF "output" \in DOMAIN patch THEN patch.output ELSE inst.output,
     spanId |-> IF "spanId" \in DOMAIN patch THEN patch.spanId ELSE inst.spanId,
     activeRunId |-> IF "activeRunId" \in DOMAIN patch THEN patch.activeRunId
                     ELSE inst.activeRunId,
     messages |-> inst.messages]

updateInstanceOrAll(insts, instanceId, patch) ==
    [i \in DOMAIN insts |->
        IF insts[i].id = instanceId \/ instanceId \notin Ids(insts)
        THEN ApplyPatch(insts[i], patch) ELSE insts[i]]

updateInstance(insts, instanceId, patch) ==
    [i \in DOMAIN insts |->
        IF insts[i].id = instanceId THEN ApplyPatch(insts[i], patch) ELSE insts[i]]

runPlaygroundInstancesSameRunId(insts, rid) ==
    [i \in DOMAIN insts |-> [insts[i] EXCEPT !.activeRunId = rid, !.spanId = "null"]]

runPlaygroundInstances(insts, rid) ==
    [i \in DOMAIN insts |->
        [insts[i] EXCEPT !.activeRunId = rid + (i - 1), !.spanId = "null"]]

markPlaygroundInstanceCompleteAll(insts, instanceId) ==
    [i \in DOMAIN insts |-> [insts[i] EXCEPT !.activeRunId = Null]]

markPlaygroundInstanceCompleteAndSpan(insts, instanceId) ==
    [i \in DOMAIN insts |->
        IF insts[i].id = instanceId
        THEN [insts[i] EXCEPT !.activeRunId = Null, !.spanId = "null"]
        ELSE insts[i]]

markPlaygroundInstanceComplete(insts, instanceId) ==
    [i \in DOMAIN insts |->
        IF insts[i].id = instanceId
        THEN [insts[i] EXCEPT !.activeRunId = Null]
        ELSE insts[i]]


----------------------------------------------------------------------------
(* The dataset-examples table: responses map *)

(* {} : an object with no keys. keys holds the keys that are present. *)
EmptyExampleRunData ==
    [keys |-> {}, content |-> << >>, toolCalls |-> << >>, span |-> "undefined",
     errorMessage |-> "undefined", experimentRun |-> "undefined"]

getInitialExampleResponsesMap(insts) ==
    [id \in Ids(insts) |-> << >>]

(* currentMap[instanceId]?.[exampleId] ?? {} *)
ExistingInstanceResponses(currentMap, instanceId) ==
    IF instanceId \in DOMAIN currentMap THEN currentMap[instanceId] ELSE << >>

ExistingExampleResponse(currentMap, instanceId, exampleId) ==
    LET existing == ExistingInstanceResponses(currentMap, instanceId)
    IN  IF exampleId \in DOMAIN existing THEN existing[exampleId]
        ELSE EmptyExampleRunData

(* { ...obj, [key]: value } *)
Assign(obj, key, value) ==
    [k \in DOMAIN obj \cup {key} |-> IF k = key THEN value ELSE obj[k]]

(* The tool calls of an example are kept as a map from tool-call id to    *)
(* [id, name, arguments]. *)
UpdatedToolCallTakingName(existingToolCalls, response) ==
    IF response.id \in DOMAIN existingToolCalls
    THEN [id |-> response.id,
          name |-> response.function.name,
          arguments |-> existingToolCalls[response.id].arguments
                            \o response.function.arguments]
    ELSE [id |-> response.id,
          name |-> response.function.name,
          arguments |-> response.function.arguments]

UpdatedToolCall(existingToolCalls, response) ==
    IF response.id \in DOMAIN existingToolCalls
    THEN [id |-> response.id,
          name |-> IF existingToolCalls[response.id].name \in {"null", "undefined"}
                   THEN response.function.name
                   ELSE existingToolCalls[response.id].name,
          arguments |-> existingToolCalls[response.id].arguments
                            \o response.function.arguments]
    ELSE [id |-> response.id,
          name |-> response.function.name,
          arguments |-> response.function.arguments]

NewExampleResponsePrepending(existing, response) ==
    CASE response.typename = "TextChunk" ->
            [existing EXCEPT !.keys = @ \cup {"content"},
                             !.content = response.content \o @]
      [] response.typename = "ToolCallChunk" ->
            [existing EXCEPT !.keys = @ \cup {"toolCalls"},
                             !.toolCalls =
                                 Assign(@, response.id,
                                        [id |-> response.id,
                                         name |-> response.function.name,
                                         arguments |-> response.function.arguments])]
      [] OTHER -> existing

NewExampleResponseErrorOnly(existing, response) ==
    CASE response.typename = "ChatCompletionSubscriptionResult" ->
            [existing EXCEPT !.keys = @ \cup {"span", "experimentRun"},
                             !.span = response.span,
                             !.experimentRun = response.experimentRun]
      [] response.typename = "TextChunk" ->
            [existing EXCEPT !.keys = @ \cup {"content"},
                             !.content = @ \o response.content]
      [] response.typename = "ToolCallChunk" ->
            [existing EXCEPT !.keys = @ \cup {"toolCalls"},
                             !.toolCalls = Assign(@, response.id,
                                                  UpdatedToolCall(@, response))]
      [] response.typename = "ChatCompletionSubscriptionError" ->
            [EmptyExampleRunData EXCEPT !.keys = {"errorMessage"},
                                        !.errorMessage = response.message]

NewExampleResponse(existing, response) ==
    CASE response.typename = "ChatCompletionSubscriptionResult" ->
            [existing EXCEPT !.keys = @ \cup {"span", "experimentRun"},
                             !.span = response.span,
                             !.experimentRun = response.experimentRun]
      [] response.typename = "TextChunk" ->
            [existing EXCEPT !.keys = @ \cup {"content"},
                             !.content = @ \o response.content]
      [] response.typename = "ToolCallChunk" ->
            [existing EXCEPT !.keys = @ \cup {"toolCalls"},
                             !.toolCalls = Assign(@, response.id,
                                                  UpdatedToolCall(@, response))]
      [] response.typename = "ChatCompletionSubscriptionError" ->
            [existing EXCEPT !.keys = @ \cup {"errorMessage"},
                             !.errorMessage = response.message]

updateExampleResponsesMapOfOneExample(instanceId, response, currentMap) ==
    IF response.datasetExampleId = "null" THEN currentMap
    ELSE Assign(currentMap, instanceId,
                [e \in {response.datasetExampleId} |->
                    NewExampleResponse(
                        ExistingExampleResponse(currentMap, instanceId,
                                                response.datasetExampleId),
                        response)])

updateExampleResponsesMap(instanceId, response, currentMap) ==
    IF response.datasetExampleId = "null" THEN currentMap
    ELSE Assign(currentMap, instanceId,
                Assign(ExistingInstanceResponses(currentMap, instanceId),
                       response.datasetExampleId,
                       NewExampleResponse(
                           ExistingExampleResponse(currentMap, instanceId,
                                                   response.datasetExampleId),
                           response)))

(* toolCalls.reduce((map, toolCall) => { map[toolCall.id] = toolCall; ... }, {}) *)
ToolCallsById(toolCalls) ==
    [id \in {toolCalls[i].id : i \in DOMAIN toolCalls} |->
        LET last == CHOOSE i \in DOMAIN toolCalls :
                      /\ toolCalls[i].id = id
                      /\ \A j \in DOMAIN toolCalls : toolCalls[j].id = id => j <= i
        IN  toolCalls[last]]

(* One example of a mutation payload becomes one entry of instanceResponses. *)
MutationExampleData(result) ==
    IF result.typename = "ChatCompletionMutationError"
    THEN [EmptyExampleRunData EXCEPT !.keys = {"errorMessage"},
                                     !.errorMessage = result.message]
    ELSE [keys |-> {"span", "content", "errorMessage", "toolCalls"},
          content |-> result.content, toolCalls |-> ToolCallsById(result.toolCalls),
          span |-> result.span,
          errorMessage |-> result.errorMessage, experimentRun |-> "undefined"]

updateExampleResponsesMapFromMutationResponse(instanceId, response, currentMap) ==
    Assign(currentMap, instanceId,
           [e \in {response.examples[i].datasetExampleId : i \in DOMAIN response.examples} |->
               LET last == CHOOSE i \in DOMAIN response.examples :
                             /\ response.examples[i].datasetExampleId = e
                             /\ \A j \in DOMAIN response.examples :
                                  response.examples[j].datasetExampleId = e => j <= i
               IN  MutationExampleData(response.examples[last].result)])


----------------------------------------------------------------------------
(* The dataset-examples table: run orchestration *)

hasSomeRunIds(insts) == \E i \in DOMAIN insts : insts[i].activeRunId # Null

Running(insts) == SelectSeq(insts, LAMBDA inst : inst.activeRunId # Null)

(* The requests the effect body issues, one per instance with a run id, in *)
(* instance order: subscriptions when streaming, mutations otherwise.      *)
NewRequestsForEveryInstance(insts, strm, firstId) ==
    {[rid |-> firstId + (i - 1),
      kind |-> IF strm THEN "sub" ELSE "mut",
      instanceId |-> insts[i].id,
      runId |-> insts[i].activeRunId,
      viewAlive |-> TRUE] : i \in DOMAIN insts}

NewRequests(insts, strm, firstId) ==
    LET running == Running(insts)
    IN  {[rid |-> firstId + (i - 1),
          kind |-> IF strm THEN "sub" ELSE "mut",
          instanceId |-> running[i].id,
          runId |-> running[i].activeRunId,
          viewAlive |-> TRUE] : i \in DOMAIN running}

(* The cleanup the streaming branch returns disposes its subscriptions;   *)
(* the non-streaming branch returns no cleanup.                           *)
AfterCleanup(reqs) == {r \in reqs : r.kind # "sub"}

(* The re-render a store update triggers runs before the next event is  *)
(* handled. The run effect is due when the component is mounted and       *)
(* hasSomeRunIds differs from the value the effect last saw.              *)
RenderPending == mounted /\ hasSomeRunIds(instances) # effectDep

(* The state after a handler's own updates. *)
Commit(insts2, strm2, exp2, reqs2, map2) ==
    /\ ~RenderPending
    /\ instances' = insts2
    /\ streaming' = strm2
    /\ experimentId' = exp2
    /\ requests' = reqs2
    /\ exampleResponsesMap' = map2
    /\ UNCHANGED <<mounted, effectDep, nextRequestId>>

(* A store operation that only replaces the instance list. *)
SetInstances(insts2) ==
    Commit(insts2, streaming, experimentId, requests, exampleResponsesMap)

History(op) ==
    /\ lastOp' = op
    /\ everHeld' = everHeld \cup Ids(instances')
    /\ failed' = IF op.name = "runPlaygroundInstances" THEN {} ELSE failed
    /\ UNCHANGED arrived

----------------------------------------------------------------------------
(* Store creation *)

(* A saved model configuration is a model object ; modelConfigByProvider  *)
(* is given as the sequence Object.values() enumerates, keyed by provider. *)
SavedConfig(provider, modelName) ==
    [provider |-> provider, modelName |-> modelName, endpoint |-> Absent,
     apiVersion |-> Absent, hasInvocationParameters |-> TRUE,
     invocationParameters |-> << >>]

HasSavedConfig(modelConfigByProvider, provider) ==
    \E i \in DOMAIN modelConfigByProvider : modelConfigByProvider[i].provider = provider

SavedConfigFor(modelConfigByProvider, provider) ==
    modelConfigByProvider[CHOOSE i \in DOMAIN modelConfigByProvider :
                              modelConfigByProvider[i].provider = provider]

(* { ...base, ...over } for model objects; over may lack keys. *)
SpreadModel(base, over) ==
    [provider |-> IF over.provider = Absent THEN base.provider ELSE over.provider,
     modelName |-> IF over.modelName = Absent THEN base.modelName ELSE over.modelName,
     endpoint |-> IF over.endpoint = Absent THEN base.endpoint ELSE over.endpoint,
     apiVersion |-> IF over.apiVersion = Absent THEN base.apiVersion ELSE over.apiVersion,
     invocationParameters |-> IF over.hasInvocationParameters
                              THEN over.invocationParameters
                              ELSE base.invocationParameters]

getInitialInstances(initialProps, iid, mid) ==
    IF initialProps.hasInstances /\ Len(initialProps.instances) > 0
    THEN initialProps.instances
    ELSE LET instance == createPlaygroundInstance(iid, mid)
             saved == initialProps.modelConfigByProvider
         IN  IF Len(saved) = 0 THEN <<instance>>
             ELSE <<[instance EXCEPT !.model =
                       SpreadModel(@,
                           IF HasSavedConfig(saved, DEFAULT_MODEL_PROVIDER)
                           THEN SavedConfigFor(saved, DEFAULT_MODEL_PROVIDER)
                           ELSE saved[1])]>>

(* createPlaygroundStore: instances: getInitialInstances(initialProps),   *)
(* then ...initialProps, which overrides instances when it has that key.  *)
createPlaygroundStoreInstances(initialProps, iid, mid) ==
    IF initialProps.hasInstances THEN initialProps.instances
    ELSE getInitialInstances(initialProps, iid, mid)

CreatesDefaultInstance(initialProps) ==
    ~(initialProps.hasInstances /\ Len(initialProps.instances) > 0)

SavedConfigMaps ==
    {<< >>,
     <<SavedConfig("OPENAI", "gpt-4")>>,
     <<SavedConfig("ANTHROPIC", "claude-3-5-sonnet-latest")>>}

SuppliedInstance(iid, mid) == createPlaygroundInstance(iid, mid)

SuppliedInstanceLists ==
    {<< >>}
    \cup {<<SuppliedInstance(a, 1)>> : a \in 0..2}
    \cup {<<SuppliedInstance(ab[1], 1), SuppliedInstance(ab[2], 3)>> :
            ab \in {x \in (0..2) \X (0..2) : x[1] # x[2]}}

DefaultProps ==
    {[hasInstances |-> FALSE, instances |-> << >>, modelConfigByProvider |-> m] :
        m \in SavedConfigMaps}

AnyProps ==
    DefaultProps
    \cup {[hasInstances |-> TRUE, instances |-> l, modelConfigByProvider |-> << >>] :
            l \in SuppliedInstanceLists}

InitWith(initialProps) ==
    /\ instances = createPlaygroundStoreInstances(initialProps, 0, 1)
    /\ operationType = "chat"
    /\ streaming = TRUE
    /\ templateLanguage = Mustache
    /\ variablesValueCache = << >>
    /\ experimentId = "undefined"
    /\ playgroundInstanceId = IF CreatesDefaultInstance(initialProps) THEN 1 ELSE 0
    /\ playgroundRunId = 0
    /\ playgroundMessageId = IF CreatesDefaultInstance(initialProps) THEN 3 ELSE 1
    /\ playgroundToolId = 0
    /\ mounted = FALSE
    /\ effectDep = FALSE
    /\ requests = {}
    /\ nextRequestId = 0
    /\ exampleResponsesMap = << >>
    /\ lastOp = Created(initialProps)
    /\ everHeld = Ids(instances)
    /\ lastRunOf = << >>
    /\ arrived = << >>
    /\ failed = {}

InitDefault == \E initialProps \in DefaultProps : InitWith(initialProps)

(* createPlaygroundStore({}) : no instances and no saved configuration. *)
InitEmptyProps ==
    InitWith([hasInstances |-> FALSE, instances |-> << >>,
              modelConfigByProvider |-> << >>])

InitAny == \E initialProps \in AnyProps : InitWith(initialProps)


----------------------------------------------------------------------------
(* Model and invocation parameters *)

(* Two invocation-parameter inputs have the same identity. *)
areInvocationParamsEqual(paramA, paramB) ==
    paramA.invocationName = paramB.invocationName

InstanceWithId(insts, instanceId) ==
    insts[CHOOSE i \in DOMAIN insts :
            /\ insts[i].id = instanceId
            /\ \A j \in DOMAIN insts : insts[j].id = instanceId => i <= j]

(* A model object as a patch that has every key. *)
WholeModel(model) ==
    [provider |-> model.provider, modelName |-> model.modelName,
     endpoint |-> model.endpoint, apiVersion |-> model.apiVersion,
     hasInvocationParameters |-> TRUE,
     invocationParameters |-> model.invocationParameters]

(* model.invocationParameters ?? [] *)
PatchParameters(model) ==
    IF model.hasInvocationParameters THEN model.invocationParameters ELSE << >>

(* newModel of updateModel, a patch. *)
NewModelKeepingName(instance, model, modelConfigByProvider) ==
    IF /\ model.provider # instance.model.provider
       /\ model.provider # Absent
       /\ HasSavedConfig(modelConfigByProvider, model.provider)
    THEN [SavedConfigFor(modelConfigByProvider, model.provider) EXCEPT
             !.provider = model.provider,
             !.hasInvocationParameters = TRUE,
             !.invocationParameters =
                 instance.model.invocationParameters \o PatchParameters(model)]
    ELSE model

NewModel(instance, model, modelConfigByProvider) ==
    IF model.provider # instance.model.provider
    THEN IF model.provider # Absent /\ HasSavedConfig(modelConfigByProvider, model.provider)
         THEN [SavedConfigFor(modelConfigByProvider, model.provider) EXCEPT
                  !.provider = model.provider,
                  !.hasInvocationParameters = TRUE,
                  !.invocationParameters =
                      instance.model.invocationParameters \o PatchParameters(model)]
         ELSE [model EXCEPT !.modelName = "undefined"]
    ELSE model

updateModel(insts, instanceId, model, modelConfigByProvider) ==
    IF instanceId \notin Ids(insts) THEN insts
    ELSE LET newModel == NewModel(InstanceWithId(insts, instanceId), model,
                                  modelConfigByProvider)
         IN  [i \in DOMAIN insts |->
                 IF insts[i].id = instanceId
                 THEN [insts[i] EXCEPT !.model =
                          [SpreadModel(insts[i].model, newModel) EXCEPT
                              !.invocationParameters =
                                  insts[i].model.invocationParameters
                                      \o PatchParameters(model)]]
                 ELSE insts[i]]

(* The filter the callers supply keeps the parameters the model supports. *)
SupportedFilter(invocationParameters, modelSupportedInvocationParameters) ==
    SelectSeq(invocationParameters,
              LAMBDA p : p.invocationName \in modelSupportedInvocationParameters)

filterInstanceModelInvocationParameters(insts, instanceId, supported) ==
    [i \in DOMAIN insts |->
        IF insts[i].id = instanceId
        THEN [insts[i] EXCEPT !.model.invocationParameters =
                 SupportedFilter(@, supported)]
        ELSE insts[i]]

updateInstanceModelInvocationParameters(insts, instanceId, invocationParameters) ==
    [i \in DOMAIN insts |->
        IF insts[i].id = instanceId
        THEN [insts[i] EXCEPT !.model.invocationParameters = invocationParameters]
        ELSE insts[i]]

ReplaceEqualMovingLast(invocationParameters, input) ==
    Append(SelectSeq(invocationParameters,
                     LAMBDA p : ~areInvocationParamsEqual(p, input)),
           input)

ReplaceEqual(invocationParameters, input) ==
    [k \in DOMAIN invocationParameters |->
        IF areInvocationParamsEqual(invocationParameters[k], input)
        THEN input ELSE invocationParameters[k]]

upsertInvocationParameterInput(insts, instanceId, invocationParameterInput) ==
    IF instanceId \notin Ids(insts) THEN insts
    ELSE LET found ==
               \E p \in Range(InstanceWithId(insts, instanceId).model.invocationParameters) :
                   areInvocationParamsEqual(p, invocationParameterInput)
         IN  [i \in DOMAIN insts |->
                 IF insts[i].id = instanceId
                 THEN [insts[i] EXCEPT !.model.invocationParameters =
                          IF found THEN ReplaceEqual(@, invocationParameterInput)
                          ELSE Append(@, invocationParameterInput)]
                 ELSE insts[i]]

deleteInvocationParameterInput(insts, instanceId, invocationName) ==
    [i \in DOMAIN insts |->
        IF insts[i].id = instanceId
        THEN [insts[i] EXCEPT !.model.invocationParameters =
                 SelectSeq(@, LAMBDA p : p.invocationName # invocationName)]
        ELSE insts[i]]

----------------------------------------------------------------------------
(* Store actions *)

AddInstance ==
    /\ Len(instances) < MaxInstances
    /\ playgroundInstanceId <= MaxInstanceId
    /\ SetInstances(addInstance(instances, playgroundInstanceId))
    /\ playgroundInstanceId' =
          IF instances = << >> THEN playgroundInstanceId ELSE playgroundInstanceId + 1
    /\ History([name |-> "addInstance",
                 id |-> IF instances = << >> THEN Null ELSE playgroundInstanceId,
                 fresh |-> instances = << >> \/ playgroundInstanceId \notin everHeld])
    /\ UNCHANGED <<operationType, templateLanguage, variablesValueCache,
                   playgroundRunId, playgroundMessageId, playgroundToolId, lastRunOf>>

DeleteInstance(instanceId) ==
    /\ SetInstances(deleteInstance(instances, instanceId))
    /\ History(Op("deleteInstance", instanceId))
    /\ UNCHANGED <<operationType, templateLanguage, variablesValueCache,
                   counterVars, lastRunOf>>

ResetInstanceId ==
    /\ playgroundInstanceId' = 0
    /\ lastOp' = Op("_resetInstanceId", Null)
    /\ UNCHANGED <<storeVars, tableVars, playgroundRunId, playgroundMessageId,
                   playgroundToolId, everHeld, lastRunOf, arrived, failed>>

ResetMessageId ==
    /\ playgroundMessageId' = 0
    /\ lastOp' = Op("_resetMessageId", Null)
    /\ UNCHANGED <<storeVars, tableVars, playgroundInstanceId, playgroundRunId,
                   playgroundToolId, everHeld, lastRunOf, arrived, failed>>

UpdateInstance(instanceId, patch) ==
    /\ SetInstances(updateInstance(instances, instanceId, patch))
    /\ History(Op("updateInstance", instanceId))
    /\ UNCHANGED <<operationType, templateLanguage, variablesValueCache,
                   counterVars, lastRunOf>>

RunPlaygroundInstancesStep ==
    /\ playgroundRunId + Len(instances) <= MaxRunId + 1
    /\ (mounted /\ ~effectDep) => nextRequestId + Len(instances) <= MaxRequests
    /\ SetInstances(runPlaygroundInstances(instances, playgroundRunId))
    /\ playgroundRunId' = playgroundRunId + Len(instances)
    /\ History(Op("runPlaygroundInstances", Null))
    /\ UNCHANGED <<operationType, templateLanguage, variablesValueCache,
                   playgroundInstanceId, playgroundMessageId, playgroundToolId>>

RunPlaygroundInstances ==
    /\ RunPlaygroundInstancesStep
    /\ UNCHANGED lastRunOf

(* The same operation, with the history of the run id each instance was   *)
(* last given kept for the properties that speak of "its current run".    *)
RunPlaygroundInstancesTracked ==
    /\ RunPlaygroundInstancesStep
    /\ lastRunOf' = [id \in DOMAIN lastRunOf \cup Ids(instances) |->
                        IF id \in Ids(instances)
                        THEN (CHOOSE inst \in Range(instances') : inst.id = id).activeRunId
                        ELSE lastRunOf[id]]

MarkPlaygroundInstanceComplete(instanceId) ==
    /\ SetInstances(markPlaygroundInstanceComplete(instances, instanceId))
    /\ History(Op("markPlaygroundInstanceComplete", instanceId))
    /\ UNCHANGED <<operationType, templateLanguage, variablesValueCache,
                   counterVars, lastRunOf>>

AddMessage(instanceId) ==
    /\ SetInstances(addMessage(instances, instanceId))
    /\ History(Op("addMessage", instanceId))
    /\ UNCHANGED <<operationType, templateLanguage, variablesValueCache,
                   counterVars, lastRunOf>>

SetOperationType(type) ==
    /\ type = "chat" => playgroundMessageId + 2 * Len(instances) <= MaxMessageId + 1
    /\ SetInstances(setOperationType(instances, type, playgroundMessageId))
    /\ operationType' = type
    /\ playgroundMessageId' =
          IF type = "chat" THEN playgroundMessageId + 2 * Len(instances)
          ELSE playgroundMessageId
    /\ History([name |-> "setOperationType", id |-> Null, fresh |-> TRUE,
                 snapshots |-> setOperationTypeSnapshots(instances, operationType,
                                                         type, playgroundMessageId)])
    /\ UNCHANGED <<templateLanguage, variablesValueCache, playgroundInstanceId,
                   playgroundRunId, playgroundToolId, lastRunOf>>

SetStreaming(b) ==
    /\ Commit(instances, b, experimentId, requests, exampleResponsesMap)
    /\ History(Op("setStreaming", Null))
    /\ UNCHANGED <<operationType, templateLanguage, variablesValueCache,
                   counterVars, lastRunOf>>

setVariableValueReplacing(cache, key, value) == [k \in {key} |-> value]

(* { ...input.variablesValueCache, [key]: value } *)
setVariableValue(cache, key, value) == Assign(cache, key, value)

SetVariableValue(key, value) ==
    /\ ~RenderPending
    /\ variablesValueCache' = setVariableValue(variablesValueCache, key, value)
    /\ UNCHANGED <<instances, operationType, streaming, templateLanguage,
                   experimentId, counterVars, tableVars, lastRunOf>>
    /\ History([name |-> "setVariableValue", id |-> Null, fresh |-> TRUE,
                 key |-> key, value |-> value])

SetTemplateLanguage(language) ==
    /\ ~RenderPending
    /\ templateLanguage' = language
    /\ UNCHANGED <<instances, operationType, streaming, variablesValueCache,
                   experimentId, counterVars, tableVars, lastRunOf>>
    /\ History(Op("setTemplateLanguage", Null))

StoreFrame ==
    UNCHANGED <<operationType, templateLanguage, variablesValueCache,
                counterVars, lastRunOf>>

UpdateModel(instanceId, model, modelConfigByProvider) ==
    /\ instanceId \in Ids(instances) =>
          Len(InstanceWithId(instances, instanceId).model.invocationParameters)
            + Len(PatchParameters(model)) <= MaxParams
    /\ SetInstances(updateModel(instances, instanceId, model, modelConfigByProvider))
    /\ History([name |-> "updateModel", id |-> instanceId, fresh |-> TRUE,
                 model |-> model, modelConfigByProvider |-> modelConfigByProvider])
    /\ StoreFrame

(* ModelConfigButton, updateModelConfig: the instance's whole current     *)
(* model with one key replaced is passed as the patch.                    *)
UpdateModelConfig(instanceId, configKey, value, modelConfigByProvider) ==
    /\ instanceId \in Ids(instances)
    /\ LET current == InstanceWithId(instances, instanceId).model
           patch == [WholeModel(current) EXCEPT ![configKey] = value]
       IN  /\ 2 * Len(current.invocationParameters) <= MaxParams
           /\ SetInstances(updateModel(instances, instanceId, patch,
                                       modelConfigByProvider))
    /\ History(Op("updateModelConfig", instanceId))
    /\ StoreFrame

(* ModelConfigButton, onModelNameChange: { provider, modelName }. *)
OnModelNameChange(instanceId, modelName, modelConfigByProvider) ==
    /\ instanceId \in Ids(instances)
    /\ SetInstances(updateModel(instances, instanceId,
          [provider |-> InstanceWithId(instances, instanceId).model.provider,
           modelName |-> modelName, endpoint |-> Absent, apiVersion |-> Absent,
           hasInvocationParameters |-> FALSE, invocationParameters |-> << >>],
          modelConfigByProvider))
    /\ History(Op("onModelNameChange", instanceId))
    /\ StoreFrame

FilterInstanceModelInvocationParameters(instanceId, supported) ==
    /\ SetInstances(filterInstanceModelInvocationParameters(instances, instanceId,
                                                            supported))
    /\ History(Op("filterInstanceModelInvocationParameters", instanceId))
    /\ StoreFrame

UpdateInstanceModelInvocationParameters(instanceId, invocationParameters) ==
    /\ SetInstances(updateInstanceModelInvocationParameters(instances, instanceId,
                                                            invocationParameters))
    /\ History(Op("updateInstanceModelInvocationParameters", instanceId))
    /\ StoreFrame

UpsertInvocationParameterInput(instanceId, invocationParameterInput) ==
    /\ instanceId \in Ids(instances) =>
          Len(InstanceWithId(instances, instanceId).model.invocationParameters)
            < MaxParams
    /\ SetInstances(upsertInvocationParameterInput(instances, instanceId,
                                                   invocationParameterInput))
    /\ History([name |-> "upsertInvocationParameterInput", id |-> instanceId,
                 fresh |-> TRUE, input |-> invocationParameterInput])
    /\ StoreFrame

DeleteInvocationParameterInput(instanceId, invocationName) ==
    /\ SetInstances(deleteInvocationParameterInput(instances, instanceId,
                                                   invocationName))
    /\ History(Op("deleteInvocationParameterInput", instanceId))
    /\ StoreFrame

----------------------------------------------------------------------------
(* Table actions *)

(* The component mounts: useState(getInitialExampleResponsesMap(instances)); *)
(* the run effect has not run yet.                                         *)
Mount ==
    /\ ~mounted
    /\ nextRequestId + Len(Running(instances)) <= MaxRequests
    /\ mounted' = TRUE
    /\ effectDep' = FALSE
    /\ exampleResponsesMap' = getInitialExampleResponsesMap(instances)
    /\ arrived' = << >>
    /\ lastOp' = Op("mount", Null)
    /\ UNCHANGED <<storeVars, counterVars, requests, nextRequestId, everHeld,
                   lastRunOf, failed>>

(* The run effect: the cleanup of its previous run, then its body. *)
RunEffect ==
    /\ RenderPending
    /\ nextRequestId + Len(Running(instances)) <= MaxRequests
    /\ effectDep' = hasSomeRunIds(instances)
    /\ IF hasSomeRunIds(instances)
       THEN /\ experimentId' = "null"
            /\ exampleResponsesMap' = getInitialExampleResponsesMap(instances)
            /\ requests' = AfterCleanup(requests)
                             \cup NewRequests(instances, streaming, nextRequestId)
            /\ nextRequestId' = nextRequestId + Len(Running(instances))
            /\ arrived' = << >>
       ELSE /\ requests' = AfterCleanup(requests)
            /\ UNCHANGED <<experimentId, exampleResponsesMap, nextRequestId,
                           arrived>>
    /\ lastOp' = Op("runEffect", Null)
    /\ UNCHANGED <<instances, operationType, streaming, templateLanguage,
                   variablesValueCache, counterVars, mounted, everHeld, lastRunOf,
                   failed>>

(* The component unmounts: the effect's cleanup runs and the component's  *)
(* state is gone. Mutations stay in flight; their view is no longer alive. *)
Unmount ==
    /\ mounted
    /\ ~RenderPending
    /\ mounted' = FALSE
    /\ effectDep' = FALSE
    /\ requests' = {[r EXCEPT !.viewAlive = FALSE] : r \in AfterCleanup(requests)}
    /\ exampleResponsesMap' = << >>
    /\ arrived' = << >>
    /\ lastOp' = Op("unmount", Null)
    /\ UNCHANGED <<storeVars, counterVars, nextRequestId, everHeld, lastRunOf,
                   failed>>

TableFrame ==
    UNCHANGED <<operationType, templateLanguage, variablesValueCache,
                counterVars, everHeld, lastRunOf>>

ContentLen(map, instanceId, response) ==
    IF response.typename = "TextChunk"
    THEN Len(ExistingExampleResponse(map, instanceId,
                                     response.datasetExampleId).content)
         + Len(response.content)
    ELSE 0

SubOnNext(r, response) ==
    /\ r \in requests
    /\ r.kind = "sub"
    /\ response.typename # "ChatCompletionSubscriptionExperiment"
          => /\ ContentLen(exampleResponsesMap, r.instanceId, response)
                   <= MaxTableContentLen
             /\ Len(arrived) < MaxArrived
    /\ IF response.typename = "ChatCompletionSubscriptionExperiment"
       THEN Commit(instances, streaming, response.experimentId, requests,
                   exampleResponsesMap)
       ELSE Commit(instances, streaming, experimentId, requests,
                   updateExampleResponsesMap(r.instanceId, response,
                                             exampleResponsesMap))
    /\ arrived' = IF response.typename = "ChatCompletionSubscriptionExperiment"
                      \/ response.datasetExampleId = "null"
                   THEN arrived
                   ELSE Append(arrived, [instanceId |-> r.instanceId,
                                         response |-> response])
    /\ lastOp' = Op("subOnNext", r.instanceId)
    /\ UNCHANGED failed
    /\ TableFrame

SubOnCompleted(r) ==
    /\ r \in requests
    /\ r.kind = "sub"
    /\ Commit(markPlaygroundInstanceComplete(instances, r.instanceId), streaming,
              experimentId, requests \ {r}, exampleResponsesMap)
    /\ lastOp' = Op("subOnCompleted", r.instanceId)
    /\ UNCHANGED <<arrived, failed>>
    /\ TableFrame

SubOnError(r) ==
    /\ r \in requests
    /\ r.kind = "sub"
    /\ Commit(markPlaygroundInstanceComplete(instances, r.instanceId), streaming,
              experimentId, requests \ {r}, exampleResponsesMap)
    /\ lastOp' = Op("subOnError", r.instanceId)
    /\ failed' = failed \cup {r.instanceId}
    /\ UNCHANGED arrived
    /\ TableFrame

(* onCompleted(instanceId)(response, errors) of a mutation. setState of a *)
(* component that is no longer mounted does nothing.                      *)
MutOnCompleted(r, response, hasErrors) ==
    /\ r \in requests
    /\ r.kind = "mut"
    /\ IF hasErrors
       THEN Commit(markPlaygroundInstanceComplete(instances, r.instanceId),
                   streaming, experimentId, requests \ {r}, exampleResponsesMap)
       ELSE Commit(markPlaygroundInstanceComplete(instances, r.instanceId),
                   streaming, response.experimentId, requests \ {r},
                   IF r.viewAlive
                   THEN updateExampleResponsesMapFromMutationResponse(
                            r.instanceId, response, exampleResponsesMap)
                   ELSE exampleResponsesMap)
    /\ arrived' = IF ~hasErrors /\ r.viewAlive
                   THEN SelectSeq(arrived, LAMBDA a : a.instanceId # r.instanceId)
                   ELSE arrived
    /\ lastOp' = Op(IF hasErrors THEN "mutOnCompletedWithErrors"
                    ELSE "mutOnCompleted", r.instanceId)
    /\ failed' = IF hasErrors THEN failed \cup {r.instanceId} ELSE failed
    /\ TableFrame

MutOnError(r) ==
    /\ r \in requests
    /\ r.kind = "mut"
    /\ Commit(markPlaygroundInstanceComplete(instances, r.instanceId), streaming,
              experimentId, requests \ {r}, exampleResponsesMap)
    /\ lastOp' = Op("mutOnError", r.instanceId)
    /\ failed' = failed \cup {r.instanceId}
    /\ UNCHANGED arrived
    /\ TableFrame

----------------------------------------------------------------------------
(* Sequences of addInstance and deleteInstance on a default store *)

InstanceIds == 0..MaxInstanceId

NextAddDelete ==
    \/ AddInstance
    \/ \E id \in InstanceIds : DeleteInstance(id)

SpecAddDelete == InitDefault /\ [][NextAddDelete]_vars


(* C1: starting from the default single instance, after any sequence of   *)
(* addInstance and deleteInstance calls all remaining instances have      *)
(* pairwise distinct ids.                                                 *)
C1_UniqueIdsAfterAddDelete ==
    \A i, j \in DOMAIN instances : i # j => instances[i].id # instances[j].id

C1_Witness ==
    /\ lastOp.name = "addInstance"
    /\ Len(instances) >= 2
    /\ playgroundInstanceId > Len(instances) + 1

----------------------------------------------------------------------------
(* Instance identity, from any creation path *)

IdPatches == {[id |-> 1]}

NextIds ==
    \/ AddInstance
    \/ \E id \in InstanceIds : DeleteInstance(id)
    \/ ResetInstanceId
    \/ \E id \in InstanceIds, patch \in IdPatches : UpdateInstance(id, patch)

SpecIds == InitAny /\ [][NextIds]_vars

(* C2: in every reachable state, from any creation path and with          *)
(* updateInstance patches and _resetInstanceId allowed, every instance id *)
(* is unique within the store, and an id handed out by addInstance is     *)
(* never an id that an instance of the store holds or held.               *)
C2_IdsUniqueAndNeverReused ==
    /\ \A i, j \in DOMAIN instances : i # j => instances[i].id # instances[j].id
    /\ lastOp.name = "addInstance" => lastOp.fresh

----------------------------------------------------------------------------
(* Runs on the store alone *)

RunPatches == {[spanId |-> "span-1"]}

NextRuns ==
    \/ AddInstance
    \/ \E id \in InstanceIds, patch \in RunPatches : UpdateInstance(id, patch)
    \/ RunPlaygroundInstances
    \/ \E id \in InstanceIds : MarkPlaygroundInstanceComplete(id)

SpecRuns == InitAny /\ [][NextRuns]_vars

(* C3: markPlaygroundInstanceComplete(id), also right after               *)
(* runPlaygroundInstances, leaves activeRunId null for the instance with  *)
(* that id, leaves every other instance as it was (its activeRunId is the *)
(* one runPlaygroundInstances gave it), and changes no other field of the *)
(* named instance nor the order of the instances.                         *)
C3_MarkCompleteClearsOnlyNamedRun ==
    [][lastOp'.name = "markPlaygroundInstanceComplete" =>
        /\ Len(instances') = Len(instances)
        /\ \A i \in DOMAIN instances :
              IF instances[i].id = lastOp'.id
              THEN /\ instances'[i].activeRunId = Null
                   /\ instances'[i].id = instances[i].id
                   /\ instances'[i].spanId = instances[i].spanId
                   /\ instances'[i].template = instances[i].template
                   /\ instances'[i].model = instances[i].model
                   /\ instances'[i].tools = instances[i].tools
                   /\ instances'[i].toolChoice = instances[i].toolChoice
                   /\ instances'[i].output = instances[i].output
                   /\ instances'[i].messages = instances[i].messages
              ELSE instances'[i] = instances[i]]_vars

(* One run was started for several instances and then one of them was     *)
(* marked complete: the others still hold the run ids of that run.        *)
C3_Witness ==
    /\ lastOp.name = "markPlaygroundInstanceComplete"
    /\ playgroundRunId = Len(instances)
    /\ Len(instances) >= 2
    /\ \E i \in DOMAIN instances :
          /\ instances[i].id = lastOp.id
          /\ instances[i].activeRunId = Null
    /\ \A j \in DOMAIN instances :
          instances[j].id # lastOp.id => instances[j].activeRunId = j - 1

----------------------------------------------------------------------------
(* Templates and messages *)

EditedTextTemplate ==
    [type |-> "text_completion", messages |-> << >>, prompt |-> "Answer: {{question}}"]

TemplatePatches == {[template |-> EditedTextTemplate]}

NextTemplates ==
    \/ AddInstance
    \/ \E id \in InstanceIds, patch \in TemplatePatches : UpdateInstance(id, patch)
    \/ \E id \in InstanceIds : AddMessage(id)
    \/ \E type \in {"chat", "text_completion"} : SetOperationType(type)

SpecTemplates == InitEmptyProps /\ [][NextTemplates]_vars

NamedInstances(insts, id) == {i \in DOMAIN insts : insts[i].id = id}

(* C8: addMessage with the id of a chat-typed instance yields a state in  *)
(* which that instance's chat template holds the previous messages        *)
(* followed by exactly one new message (default role, placeholder         *)
(* content); the templates of all other instances are unchanged.          *)
C8_AddMessageAppendsToChatTemplate ==
    [][lastOp'.name = "addMessage" =>
        \A i \in DOMAIN instances :
            IF instances[i].id = lastOp'.id /\ instances[i].template.type = "chat"
            THEN LET before == instances[i].template.messages
                     after == instances'[i].template.messages
                 IN  /\ instances'[i].template.type = "chat"
                     /\ Len(after) = Len(before) + 1
                     /\ SubSeq(after, 1, Len(before)) = before
                     /\ after[Len(after)].role = DEFAULT_CHAT_ROLE
                     /\ after[Len(after)].content = "{question}"
            ELSE instances'[i].template = instances[i].template]_vars

(* C9: addMessage on an instance whose template is text-completion-typed  *)
(* is a no-op: every field of every instance is the same before and after *)
(* the call.                                                              *)
C9_AddMessageOnTextCompletionIsNoOp ==
    [][(/\ lastOp'.name = "addMessage"
        /\ NamedInstances(instances, lastOp'.id) # {}
        /\ \A i \in NamedInstances(instances, lastOp'.id) :
              instances[i].template.type = "text_completion")
       => instances' = instances]_vars

C9_Witness ==
    /\ lastOp.name = "addMessage"
    /\ Len(instances) >= 2
    /\ \E i \in DOMAIN instances :
          /\ instances[i].id = lastOp.id
          /\ instances[i].template.type = "text_completion"
    /\ \E j \in DOMAIN instances : instances[j].template.type = "chat"


----------------------------------------------------------------------------
(* The store together with the table's run orchestration *)

TextChunk(exampleId, content) ==
    [typename |-> "TextChunk", datasetExampleId |-> exampleId, content |-> content]

ToolCallChunk(exampleId, id, name, arguments) ==
    [typename |-> "ToolCallChunk", datasetExampleId |-> exampleId, id |-> id,
     function |-> [name |-> name, arguments |-> arguments]]

SubscriptionResult(exampleId, span, experimentRun) ==
    [typename |-> "ChatCompletionSubscriptionResult", datasetExampleId |-> exampleId,
     span |-> span, experimentRun |-> experimentRun]

SubscriptionError(exampleId, message) ==
    [typename |-> "ChatCompletionSubscriptionError", datasetExampleId |-> exampleId,
     message |-> message]

SubscriptionExperiment(id) ==
    [typename |-> "ChatCompletionSubscriptionExperiment", experimentId |-> id]

MutationPayload(id, examples) == [experimentId |-> id, examples |-> examples]

TableChunks ==
    {SubscriptionExperiment("exp-1"), TextChunk("ex-1", <<"H">>)}

TableMutationResponses ==
    {MutationPayload("exp-2",
        <<[datasetExampleId |-> "ex-1",
           result |-> [typename |-> "ChatCompletionMutationPayload",
                       content |-> <<"H", "i">>, errorMessage |-> "null",
                       span |-> "span-1", toolCalls |-> << >>]]>>)}

NextTable ==
    \/ Len(instances) < MaxTableInstances /\ AddInstance
    \/ RunPlaygroundInstancesTracked
    \/ \E b \in BOOLEAN : SetStreaming(b)
    \/ Mount
    \/ RunEffect
    \/ Unmount
    \/ \E r \in requests, response \in TableChunks : SubOnNext(r, response)
    \/ \E r \in requests : SubOnCompleted(r)
    \/ \E r \in requests : SubOnError(r)
    \/ \E r \in requests, response \in TableMutationResponses, hasErrors \in BOOLEAN :
          MutOnCompleted(r, response, hasErrors)
    \/ \E r \in requests : MutOnError(r)

SpecTable == InitEmptyProps /\ [][NextTable]_vars

SamePosition(i) ==
    /\ i \in DOMAIN instances
    /\ i \in DOMAIN instances'
    /\ instances'[i].id = instances[i].id

(* C4: for each instance the activeRunId values are strictly ordered      *)
(* null -> run id -> null: activeRunId never changes from one non-null run *)
(* id directly to another non-null run id, and nothing but a run start     *)
(* sets it to non-null.                                                    *)
C4_ActiveRunIdStrictlyOrdered ==
    [][\A i \in DOMAIN instances :
          (/\ SamePosition(i)
           /\ instances'[i].activeRunId # Null
           /\ instances'[i].activeRunId # instances[i].activeRunId)
          => /\ instances[i].activeRunId = Null
             /\ lastOp'.name = "runPlaygroundInstances"]_vars

RequestsFor(reqs, instanceId) == {r \in reqs : r.instanceId = instanceId}

(* C5: an instance's activeRunId is non-null exactly while a generation    *)
(* request for that instance is in flight: never non-null with no request  *)
(* in flight, never null while a request started for its current run is    *)
(* still in flight. Stated on the states in which the table is mounted and *)
(* has re-rendered after the last store update.                            *)
C5_ActiveRunIdIffRequestInFlight ==
    (mounted /\ ~RenderPending) =>
        \A i \in DOMAIN instances :
            /\ instances[i].activeRunId # Null
                  => RequestsFor(requests, instances[i].id) # {}
            /\ instances[i].activeRunId = Null
                  => \A r \in RequestsFor(requests, instances[i].id) :
                        instances[i].id \in DOMAIN lastRunOf
                           => r.runId # lastRunOf[instances[i].id]

FailureCallbacks == {"subOnError", "mutOnError", "mutOnCompletedWithErrors"}

(* C6: right after a failure callback of a generation request (streaming  *)
(* subscription onError, mutation onError, mutation onCompleted with       *)
(* payload errors) the failing instance's activeRunId is null, and the     *)
(* activeRunId of every other instance and the requests in flight for the  *)
(* other instances are unchanged.                                          *)
C6_FailureClearsOnlyFailingInstance ==
    [][lastOp'.name \in FailureCallbacks =>
          /\ Len(instances') = Len(instances)
          /\ \A i \in DOMAIN instances :
                /\ instances'[i].id = instances[i].id
                /\ instances[i].id = lastOp'.id
                      => instances'[i].activeRunId = Null
                /\ instances[i].id # lastOp'.id
                      => /\ instances'[i].activeRunId = instances[i].activeRunId
                         /\ RequestsFor(requests', instances[i].id)
                              = RequestsFor(requests, instances[i].id)]_vars

(* A failure callback has just cleared a running instance while another   *)
(* instance still runs with its request in flight.                        *)
C6_Witness ==
    /\ lastOp.name \in FailureCallbacks
    /\ \E i \in DOMAIN instances :
          /\ instances[i].id = lastOp.id
          /\ instances[i].activeRunId = Null
          /\ instances[i].id \in DOMAIN lastRunOf
    /\ \E j \in DOMAIN instances :
          /\ instances[j].id # lastOp.id
          /\ instances[j].activeRunId # Null
          /\ RequestsFor(requests, instances[j].id) # {}

RequestCallbacks ==
    {"subOnNext", "subOnCompleted", "subOnError", "mutOnCompleted",
     "mutOnCompletedWithErrors", "mutOnError"}

(* C7: after the consuming view has unmounted, no callback of a generation *)
(* request the view started (subscription or mutation) changes the store   *)
(* state (activeRunId, experiment id) or the example-responses map.        *)
C7_NoCallbackEffectAfterUnmount ==
    [][(/\ lastOp'.name \in RequestCallbacks
        /\ \E r \in requests : ~r.viewAlive /\ r \notin requests')
          => /\ instances' = instances
             /\ experimentId' = experimentId
             /\ exampleResponsesMap' = exampleResponsesMap]_vars

----------------------------------------------------------------------------
(* Model configuration and invocation parameters *)

ParamNames == {"temperature", "max_tokens"}

ParamInputs == {[invocationName |-> n, value |-> v] : n \in ParamNames, v \in {1, 2}}

(* The parameter lists a caller hands to                                   *)
(* updateInstanceModelInvocationParameters hold no name twice.             *)
ParamLists ==
    {<< >>}
    \cup {<<a>> : a \in ParamInputs}
    \cup {<<ab[1], ab[2]>> :
            ab \in {x \in ParamInputs \X ParamInputs :
                      ~areInvocationParamsEqual(x[1], x[2])}}

ConfigEdits == {<<"endpoint", "https://e">>, <<"modelName", "gpt-4">>}

ProviderPatches ==
    {[provider |-> p, modelName |-> Absent, endpoint |-> Absent,
      apiVersion |-> Absent, hasInvocationParameters |-> FALSE,
      invocationParameters |-> << >>] : p \in {"OPENAI", "ANTHROPIC"}}

ParamsSavedConfigs == <<SavedConfig("ANTHROPIC", "claude-3-5-sonnet-latest")>>

(* Patches that name a provider and a model name. *)
NamedProviderPatches ==
    {[provider |-> p, modelName |-> "gpt-4", endpoint |-> Absent,
      apiVersion |-> Absent, hasInvocationParameters |-> FALSE,
      invocationParameters |-> << >>] : p \in {"OPENAI", "ANTHROPIC"}}

NextParams ==
    \/ \E id \in Ids(instances), m \in ProviderPatches \cup NamedProviderPatches,
          saved \in {<< >>, ParamsSavedConfigs} :
          UpdateModel(id, m, saved)
    \/ \E id \in Ids(instances), e \in ConfigEdits :
          UpdateModelConfig(id, e[1], e[2], << >>)
    \/ \E id \in Ids(instances) : OnModelNameChange(id, "gpt-4o-mini", << >>)
    \/ \E id \in Ids(instances), supported \in SUBSET ParamNames :
          FilterInstanceModelInvocationParameters(id, supported)
    \/ \E id \in Ids(instances), l \in ParamLists :
          UpdateInstanceModelInvocationParameters(id, l)
    \/ \E id \in Ids(instances), input \in ParamInputs :
          UpsertInvocationParameterInput(id, input)
    \/ \E id \in Ids(instances), n \in ParamNames :
          DeleteInvocationParameterInput(id, n)

SpecParams == InitEmptyProps /\ [][NextParams]_vars

(* C10: after any sequence of updateModel (the model-config form's calls,  *)
(* which pass the instance's whole current model as the patch, included),   *)
(* updateInstanceModelInvocationParameters,                                *)
(* filterInstanceModelInvocationParameters, upsertInvocationParameterInput *)
(* and deleteInvocationParameterInput calls, no instance's                 *)
(* invocation-parameter list holds two entries of the same identity.       *)
C10_NoTwoParametersOfSameIdentity ==
    \A i \in DOMAIN instances :
        LET params == instances[i].model.invocationParameters
        IN  \A a, b \in DOMAIN params :
                a # b => ~areInvocationParamsEqual(params[a], params[b])

EntriesEqualTo(invocationParameters, input) ==
    {k \in DOMAIN invocationParameters :
        areInvocationParamsEqual(invocationParameters[k], input)}

(* C11: upsertInvocationParameterInput with p1 and then with p2, of the    *)
(* same identity and different values, leaves the instance's list with     *)
(* exactly one entry of that identity, equal to p2, whatever the list held *)
(* before the two calls.                                                   *)
C11_UpsertTwiceLeavesOneEntry ==
    [][(/\ lastOp.name = "upsertInvocationParameterInput"
        /\ lastOp'.name = "upsertInvocationParameterInput"
        /\ lastOp'.id = lastOp.id
        /\ areInvocationParamsEqual(lastOp.input, lastOp'.input)
        /\ lastOp.input.value # lastOp'.input.value)
          => \A i \in DOMAIN instances' :
                instances'[i].id = lastOp'.id
                   => LET params == instances'[i].model.invocationParameters
                      IN  /\ Cardinality(EntriesEqualTo(params, lastOp'.input)) = 1
                          /\ \A k \in EntriesEqualTo(params, lastOp'.input) :
                                params[k] = lastOp'.input]_vars

WithoutMessageIds(template) ==
    [template EXCEPT !.messages = [k \in DOMAIN @ |-> [@[k] EXCEPT !.id = 0]]]

CanonicalTemplate(type) ==
    IF type = "chat" THEN WithoutMessageIds(generateChatCompletionTemplate(0))
    ELSE DEFAULT_TEXT_COMPLETION_TEMPLATE

(* C12: setOperationType("chat") sets every instance's template to the     *)
(* two-message default chat template (system, then user) and               *)
(* setOperationType("text_completion") sets it to the default prompt       *)
(* template, regardless of prior edits; every other field of every         *)
(* instance and the number and order of the instances are unchanged.       *)
C12_SetOperationTypeResetsEveryTemplate ==
    [][lastOp'.name = "setOperationType" =>
          /\ Len(instances') = Len(instances)
          /\ \A i \in DOMAIN instances :
                /\ WithoutMessageIds(instances'[i].template)
                     = CanonicalTemplate(operationType')
                /\ [instances'[i] EXCEPT !.template = instances[i].template]
                     = instances[i]]_vars

(* setOperationType("chat") has just rewritten the templates of several   *)
(* instances, after an earlier rewrite and an addMessage.                 *)
C12_Witness ==
    /\ lastOp.name = "setOperationType"
    /\ operationType = "chat"
    /\ Len(instances) >= 2
    /\ \A i \in DOMAIN instances : instances[i].template.messages[1].id >= 3
    /\ \E i \in DOMAIN instances : instances[i].messages # << >>

----------------------------------------------------------------------------
(* Streamed chunks merged into the example-responses map *)

StreamChunks ==
    {TextChunk("ex-1", <<"H">>), TextChunk("ex-1", <<"i">>),
     TextChunk("ex-2", <<"H">>),
     ToolCallChunk("ex-1", "call-1", "f", <<"{">>),
     ToolCallChunk("ex-1", "call-1", "f", <<"}">>),
     ToolCallChunk("ex-1", "call-2", "g", <<"[">>)}

NextChunks ==
    \/ Len(instances) < MaxTableInstances /\ AddInstance
    \/ RunPlaygroundInstancesTracked
    \/ Mount
    \/ RunEffect
    \/ \E r \in requests, response \in StreamChunks : SubOnNext(r, response)

SpecChunks == InitEmptyProps /\ [][NextChunks]_vars

RECURSIVE TextOf(_, _, _)
TextOf(log, instanceId, exampleId) ==
    IF log = << >> THEN << >>
    ELSE LET a == Head(log)
         IN  (IF /\ a.instanceId = instanceId
                 /\ a.response.datasetExampleId = exampleId
                 /\ a.response.typename = "TextChunk"
              THEN a.response.content ELSE << >>)
             \o TextOf(Tail(log), instanceId, exampleId)

RECURSIVE ArgumentsOf(_, _, _, _)
ArgumentsOf(log, instanceId, exampleId, toolCallId) ==
    IF log = << >> THEN << >>
    ELSE LET a == Head(log)
         IN  (IF /\ a.instanceId = instanceId
                 /\ a.response.datasetExampleId = exampleId
                 /\ a.response.typename = "ToolCallChunk"
                 /\ a.response.id = toolCallId
              THEN a.response.function.arguments ELSE << >>)
             \o ArgumentsOf(Tail(log), instanceId, exampleId, toolCallId)

(* C13: for chunks applied in arrival order with updateExampleResponsesMap, *)
(* the merged content of every (instance, example) pair is the              *)
(* concatenation of its text chunks' content in arrival order, and the      *)
(* merged arguments of every tool-call id are the concatenation of the      *)
(* argument fragments of that id in arrival order, however the chunks of    *)
(* other pairs and other tool-call ids are interleaved.                     *)
C13_ChunksMergeInArrivalOrder ==
    /\ \A k \in DOMAIN arrived :
          /\ arrived[k].instanceId \in DOMAIN exampleResponsesMap
          /\ arrived[k].response.datasetExampleId
                \in DOMAIN exampleResponsesMap[arrived[k].instanceId]
          /\ arrived[k].response.typename = "ToolCallChunk"
                => arrived[k].response.id \in
                      DOMAIN exampleResponsesMap[arrived[k].instanceId]
                                [arrived[k].response.datasetExampleId].toolCalls
    /\ \A instanceId \in DOMAIN exampleResponsesMap :
          \A exampleId \in DOMAIN exampleResponsesMap[instanceId] :
             LET data == exampleResponsesMap[instanceId][exampleId]
             IN  /\ data.content = TextOf(arrived, instanceId, exampleId)
                 /\ \A toolCallId \in DOMAIN data.toolCalls :
                       data.toolCalls[toolCallId].arguments
                          = ArgumentsOf(arrived, instanceId, exampleId, toolCallId)

(* Text chunks "H", "i" and two fragments of one tool call were merged for *)
(* one pair while a chunk of another instance arrived in between.          *)
C13_Witness ==
    /\ Len(arrived) >= 3
    /\ \E k \in DOMAIN arrived : arrived[k].instanceId # arrived[1].instanceId
    /\ \E instanceId \in DOMAIN exampleResponsesMap :
          /\ "ex-1" \in DOMAIN exampleResponsesMap[instanceId]
          /\ \/ exampleResponsesMap[instanceId]["ex-1"].content = <<"H", "i">>
             \/ /\ "call-1" \in DOMAIN exampleResponsesMap[instanceId]["ex-1"].toolCalls
                /\ exampleResponsesMap[instanceId]["ex-1"].toolCalls["call-1"].arguments
                     = <<"{", "}">>

----------------------------------------------------------------------------
(* Frame of deleteInstance *)

KeptPositions(insts, instanceId) == {i \in DOMAIN insts : insts[i].id # instanceId}

KeptPosition(insts, instanceId, k) ==
    CHOOSE i \in KeptPositions(insts, instanceId) :
        Cardinality({j \in KeptPositions(insts, instanceId) : j <= i}) = k

----------------------------------------------------------------------------
(* Update operations given the id of no instance *)

UnknownIdInput == [invocationName |-> "temperature", value |-> 1]

NextUpdates ==
    \/ \E id \in InstanceIds, m \in ProviderPatches : UpdateModel(id, m, << >>)
    \/ \E id \in InstanceIds : AddMessage(id)
    \/ \E id \in InstanceIds, patch \in RunPatches : UpdateInstance(id, patch)
    \/ RunPlaygroundInstances
    \/ \E id \in InstanceIds : MarkPlaygroundInstanceComplete(id)
    \/ \E id \in InstanceIds :
          FilterInstanceModelInvocationParameters(id, {"max_tokens"})
    \/ \E id \in InstanceIds :
          UpdateInstanceModelInvocationParameters(id, <<UnknownIdInput>>)
    \/ \E id \in InstanceIds : UpsertInvocationParameterInput(id, UnknownIdInput)
    \/ \E id \in InstanceIds :
          DeleteInvocationParameterInput(id, UnknownIdInput.invocationName)

SpecUpdates == InitEmptyProps /\ [][NextUpdates]_vars

UpdateOperations ==
    {"updateModel", "addMessage", "updateInstance", "markPlaygroundInstanceComplete",
     "filterInstanceModelInvocationParameters",
     "updateInstanceModelInvocationParameters", "upsertInvocationParameterInput",
     "deleteInvocationParameterInput"}

(* C15: every update operation that names an instance, called with an id   *)
(* that no instance of the store has, leaves the instance list and all     *)
(* other store fields as they were.                                        *)
C15_UnknownIdIsNoOp ==
    [][(lastOp'.name \in UpdateOperations /\ lastOp'.id \notin Ids(instances))
          => /\ instances' = instances
             /\ storeVars' = storeVars
             /\ counterVars' = counterVars]_vars

(* An update operation was given an id no instance has, while the store   *)
(* holds an instance with invocation parameters and an added message.     *)
C15_Witness ==
    /\ lastOp.name \in UpdateOperations
    /\ lastOp.id # Null
    /\ lastOp.id \notin Ids(instances)
    /\ \E i \in DOMAIN instances :
          /\ instances[i].model.invocationParameters # << >>
          /\ instances[i].messages # << >>

----------------------------------------------------------------------------
(* Run ids *)

----------------------------------------------------------------------------
(* The clone made by addInstance *)

(* C17: addInstance on a store with no instances changes nothing (no       *)
(* instance added, no id consumed); otherwise it appends exactly one       *)
(* instance whose template, model and tools equal those of the first       *)
(* instance, whose id is fresh, and whose activeRunId and spanId are null, *)
(* even when the first instance has a run in flight; all existing          *)
(* instances are unchanged.                                                *)
C17_AddInstanceClonesFirstWithFreshId ==
    [][lastOp'.name = "addInstance" =>
          IF instances = << >>
          THEN instances' = instances /\ playgroundInstanceId' = playgroundInstanceId
          ELSE /\ Len(instances') = Len(instances) + 1
               /\ \A i \in DOMAIN instances : instances'[i] = instances[i]
               /\ LET new == instances'[Len(instances')]
                  IN  /\ new.template = instances[1].template
                      /\ new.model = instances[1].model
                      /\ new.tools = instances[1].tools
                      /\ new.id \notin everHeld
                      /\ new.activeRunId = Null
                      /\ new.spanId = "null"]_vars

----------------------------------------------------------------------------
(* updateModel across a change of provider *)

(* The value a key has when read from an object that may lack it. *)
ReadKey(value) == IF value = Absent THEN "undefined" ELSE value

ProviderChanges ==
    /\ lastOp'.name = "updateModel"
    /\ lastOp'.id \in Ids(instances)
    /\ lastOp'.model.provider # Absent
    /\ lastOp'.model.provider
         # InstanceWithId(instances, lastOp'.id).model.provider

(* C18: updateModel with a patch whose provider differs from the           *)
(* instance's provider, when a saved configuration exists for the new      *)
(* provider, gives a model with the new provider, with model name,         *)
(* endpoint and api version taken from the saved configuration, and with   *)
(* the existing invocation parameters followed by the patch's, each        *)
(* sequence once.                                                          *)
C18_ProviderChangeTakesSavedConfig ==
    [][(/\ ProviderChanges
        /\ HasSavedConfig(lastOp'.modelConfigByProvider, lastOp'.model.provider))
          => LET before == InstanceWithId(instances, lastOp'.id).model
                 after == InstanceWithId(instances', lastOp'.id).model
                 saved == SavedConfigFor(lastOp'.modelConfigByProvider,
                                         lastOp'.model.provider)
             IN  /\ after.provider = lastOp'.model.provider
                 /\ after.modelName = ReadKey(saved.modelName)
                 /\ after.endpoint = ReadKey(saved.endpoint)
                 /\ after.apiVersion = ReadKey(saved.apiVersion)
                 /\ after.invocationParameters
                      = before.invocationParameters
                          \o PatchParameters(lastOp'.model)]_vars

(* C19: updateModel with a patch whose provider differs from the           *)
(* instance's provider, when no saved configuration exists for the new     *)
(* provider, gives a model with the new provider and no model name,        *)
(* whether or not the patch supplied a model name; when the patch's        *)
(* provider equals the current provider the call never clears the model    *)
(* name.                                                                   *)
C19_ProviderChangeClearsModelName ==
    [][/\ (/\ ProviderChanges
           /\ ~HasSavedConfig(lastOp'.modelConfigByProvider, lastOp'.model.provider))
             => LET after == InstanceWithId(instances', lastOp'.id).model
                IN  /\ after.provider = lastOp'.model.provider
                    /\ after.modelName = "undefined"
       /\ (/\ lastOp'.name = "updateModel"
           /\ lastOp'.id \in Ids(instances)
           /\ lastOp'.model.provider
                = InstanceWithId(instances, lastOp'.id).model.provider)
             => LET before == InstanceWithId(instances, lastOp'.id).model
                    after == InstanceWithId(instances', lastOp'.id).model
                IN  after.modelName =
                       IF lastOp'.model.modelName = Absent THEN before.modelName
                       ELSE lastOp'.model.modelName
       /\ lastOp'.name = "onModelNameChange"
             => LET before == InstanceWithId(instances, lastOp'.id).model
                    after == InstanceWithId(instances', lastOp'.id).model
                IN  /\ after.provider = before.provider
                    /\ after.modelName # "undefined"]_vars

(* A patch naming another provider and a model name was applied with no   *)
(* saved configuration: the model has that provider and no model name.    *)
C19_Witness ==
    /\ lastOp.name = "updateModel"
    /\ lastOp.id \in Ids(instances)
    /\ lastOp.modelConfigByProvider = << >>
    /\ lastOp.model.modelName = "gpt-4"
    /\ InstanceWithId(instances, lastOp.id).model.provider = lastOp.model.provider
    /\ InstanceWithId(instances, lastOp.id).model.modelName = "undefined"

----------------------------------------------------------------------------
(* Message ids *)

NextMessageIds ==
    \/ AddInstance
    \/ ResetMessageId
    \/ \E id \in InstanceIds, patch \in TemplatePatches : UpdateInstance(id, patch)
    \/ \E type \in {"chat", "text_completion"} : SetOperationType(type)

SpecMessageIds == InitEmptyProps /\ [][NextMessageIds]_vars

(* C20: every message id generateMessageId produces, in any sequence of    *)
(* id generations and _resetMessageId calls, is at least 1; so every       *)
(* message of every default chat template made by createPlaygroundInstance *)
(* or setOperationType("chat") has a nonzero id.                           *)
C20_MessageIdsAreTruthy ==
    \A i \in DOMAIN instances :
        \A k \in DOMAIN instances[i].template.messages :
            instances[i].template.messages[k].id >= 1

----------------------------------------------------------------------------
(* Store creation *)

(* C21: a store created by createPlaygroundStore(initialProps) holds       *)
(* exactly the instances of initialProps when initialProps supplies a      *)
(* non-empty instance list; otherwise (instances absent or an empty list)  *)
(* it holds exactly one default instance, whose model is overlaid with the *)
(* saved configuration of the default provider when one is saved, else     *)
(* with the first saved configuration, else left at the defaults.          *)
C21_CreatedStoreHoldsSuppliedOrOneDefault ==
    lastOp.name = "createPlaygroundStore" =>
        LET initialProps == lastOp.initialProps
            saved == initialProps.modelConfigByProvider
            defaults == createPlaygroundInstance(0, 1).model
        IN  IF initialProps.hasInstances /\ initialProps.instances # << >>
            THEN instances = initialProps.instances
            ELSE /\ Len(instances) = 1
                 /\ instances[1].model =
                       IF saved = << >> THEN defaults
                       ELSE IF HasSavedConfig(saved, DEFAULT_MODEL_PROVIDER)
                            THEN SpreadModel(defaults,
                                    SavedConfigFor(saved, DEFAULT_MODEL_PROVIDER))
                            ELSE SpreadModel(defaults, saved[1])

----------------------------------------------------------------------------
(* Snapshots published to subscribers *)

(* C22: every store operation is applied atomically with respect to        *)
(* observers: every snapshot setOperationType publishes is the store's     *)
(* state before the call or its state after the call, so none has          *)
(* instances whose templates are already of the new type while             *)
(* operationType still holds the old type.                                 *)
C22_SetOperationTypePublishesNoPartialSnapshot ==
    [][lastOp'.name = "setOperationType" =>
          \A k \in DOMAIN lastOp'.snapshots :
             \/ lastOp'.snapshots[k]
                  = [instances |-> instances, operationType |-> operationType]
             \/ lastOp'.snapshots[k]
                  = [instances |-> instances', operationType |-> operationType']]_vars

----------------------------------------------------------------------------
(* The variable cache *)

VariableKeys == {"question", "context"}

VariableValues == {"", "Paris"}

TemplateLanguageInputs == {Mustache, "f-string"}

NextVariables ==
    \/ \E key \in VariableKeys, value \in VariableValues : SetVariableValue(key, value)
    \/ \E language \in TemplateLanguageInputs : SetTemplateLanguage(language)
    \/ \E type \in {"chat", "text_completion"} : SetOperationType(type)
    \/ \E b \in BOOLEAN : SetStreaming(b)

SpecVariables == InitEmptyProps /\ [][NextVariables]_vars

Switches == {"setTemplateLanguage", "setOperationType", "setStreaming"}

(* C23: setVariableValue(key, value) sets the cache entry for key to value *)
(* and leaves every other entry of the variable cache unchanged;           *)
(* setTemplateLanguage, setOperationType and setStreaming leave the whole  *)
(* variable cache unchanged, so an entered value is still in the cache     *)
(* after any sequence of those switches.                                   *)
C23_VariableCacheKeepsOtherEntries ==
    [][/\ lastOp'.name = "setVariableValue" =>
             /\ DOMAIN variablesValueCache'
                  = DOMAIN variablesValueCache \cup {lastOp'.key}
             /\ variablesValueCache'[lastOp'.key] = lastOp'.value
             /\ \A k \in DOMAIN variablesValueCache :
                   k # lastOp'.key
                      => variablesValueCache'[k] = variablesValueCache[k]
       /\ lastOp'.name \in Switches =>
             variablesValueCache' = variablesValueCache]_vars

(* A value was entered for one variable after another variable had its    *)
(* value and after the language, the mode and streaming were switched.    *)
C23_Witness ==
    /\ lastOp.name = "setVariableValue"
    /\ DOMAIN variablesValueCache = VariableKeys
    /\ \E k \in VariableKeys :
          k # lastOp.key /\ variablesValueCache[k] = "Paris"
    /\ templateLanguage # Mustache
    /\ operationType = "text_completion"
    /\ ~streaming

----------------------------------------------------------------------------
(* No automatic retry *)

(* C24: no generation request is retried automatically: after a request    *)
(* for an instance has failed, no further generation request is issued for *)
(* that instance until runPlaygroundInstances is called again, in          *)
(* streaming and in non-streaming mode and whatever other instances are    *)
(* still running.                                                          *)
C24_NoRequestAfterFailureUntilRerun ==
    [][\A r \in requests' :
          (\A q \in requests : q.rid # r.rid) => r.instanceId \notin failed]_vars

(* After a request of one instance failed, the effect ran again and issued *)
(* a request for another instance that is still running, and none for the  *)
(* failed one.                                                             *)
C24_Witness ==
    /\ lastOp.name = "runEffect"
    /\ \E i \in DOMAIN instances : instances[i].id \in failed
    /\ \E r \in requests :
          /\ r.rid = nextRequestId - 1
          /\ r.instanceId \notin failed
    /\ \A r \in requests : r.rid = nextRequestId - 1 => r.instanceId \notin failed

----------------------------------------------------------------------------
(* The function name of a streamed tool call *)

(* Tool-call chunks: the later chunks of a tool call carry an empty name  *)
(* or another name.                                                       *)
NamedToolCallChunks ==
    {ToolCallChunk("ex-1", "call-1", "f", <<"{">>),
     ToolCallChunk("ex-1", "call-1", "", <<"}">>),
     ToolCallChunk("ex-1", "call-1", "g", <<"]">>),
     ToolCallChunk("ex-1", "call-2", "g", <<"[">>)}

NextToolCalls ==
    \/ Len(instances) < MaxTableInstances /\ AddInstance
    \/ RunPlaygroundInstancesTracked
    \/ Mount
    \/ RunEffect
    \/ \E r \in requests, response \in NamedToolCallChunks : SubOnNext(r, response)

SpecToolCalls == InitEmptyProps /\ [][NextToolCalls]_vars

ToolCallChunksOf(log, instanceId, exampleId, toolCallId) ==
    {k \in DOMAIN log :
        /\ log[k].instanceId = instanceId
        /\ log[k].response.datasetExampleId = exampleId
        /\ log[k].response.typename = "ToolCallChunk"
        /\ log[k].response.id = toolCallId}

FirstToolCallChunkOf(log, instanceId, exampleId, toolCallId) ==
    log[CHOOSE k \in ToolCallChunksOf(log, instanceId, exampleId, toolCallId) :
            \A l \in ToolCallChunksOf(log, instanceId, exampleId, toolCallId) :
                k <= l].response

(* C25: in the streaming merge, the function name of the accumulated tool  *)
(* call of an (instance, example, tool-call id) is the name carried by the *)
(* first tool-call chunk received for that id; names carried by later      *)
(* chunks of the same id never replace it, while their argument fragments  *)
(* are still appended.                                                     *)
C25_ToolCallNameIsFirstChunksName ==
    \A instanceId \in DOMAIN exampleResponsesMap :
       \A exampleId \in DOMAIN exampleResponsesMap[instanceId] :
          LET toolCalls == exampleResponsesMap[instanceId][exampleId].toolCalls
          IN  \A toolCallId \in DOMAIN toolCalls :
                 /\ ToolCallChunksOf(arrived, instanceId, exampleId, toolCallId) # {}
                 /\ toolCalls[toolCallId].name =
                       FirstToolCallChunkOf(arrived, instanceId, exampleId,
                                            toolCallId).function.name
                 /\ toolCalls[toolCallId].arguments =
                       ArgumentsOf(arrived, instanceId, exampleId, toolCallId)

(* Two chunks of one tool-call id carrying different names were merged:   *)
(* the accumulated tool call holds both argument fragments.               *)
C25_Witness ==
    \E instanceId \in DOMAIN exampleResponsesMap :
       \E exampleId \in DOMAIN exampleResponsesMap[instanceId] :
          LET toolCalls == exampleResponsesMap[instanceId][exampleId].toolCalls
          IN  \E toolCallId \in DOMAIN toolCalls :
                 /\ \E k, l \in ToolCallChunksOf(arrived, instanceId, exampleId,
                                                  toolCallId) :
                       /\ k < l
                       /\ arrived[k].response.function.name
                            # arrived[l].response.function.name
                 /\ Len(toolCalls[toolCallId].arguments) = 2

----------------------------------------------------------------------------
(* Streamed events of every kind *)

EventChunks ==
    {TextChunk("ex-1", <<"H">>),
     ToolCallChunk("ex-1", "call-1", "f", <<"{">>),
     SubscriptionResult("ex-1", "span-1", "run-1"),
     SubscriptionError("ex-1", "boom"),
     TextChunk("ex-2", <<"i">>),
     TextChunk("null", <<"x">>)}

NextEvents ==
    \/ Len(instances) < MaxTableInstances /\ AddInstance
    \/ RunPlaygroundInstancesTracked
    \/ Mount
    \/ RunEffect
    \/ \E r \in requests, response \in EventChunks : SubOnNext(r, response)

SpecEvents == InitEmptyProps /\ [][NextEvents]_vars

(* The step merged a chunk: the chunk is the last entry of the log. *)
Merged == lastOp'.name = "subOnNext" /\ Len(arrived') = Len(arrived) + 1

MergedChunk == arrived'[Len(arrived')].response

MergedBefore ==
    ExistingExampleResponse(exampleResponsesMap, lastOp'.id,
                            MergedChunk.datasetExampleId)

MergedAfter ==
    ExistingExampleResponse(exampleResponsesMap', lastOp'.id,
                            MergedChunk.datasetExampleId)

(* C26: a streamed error event for an (instance, example) pair sets that   *)
(* pair's errorMessage to the event's message and keeps the content, tool  *)
(* calls, span and experiment run already accumulated for the pair; it     *)
(* does not clear the instance's activeRunId, leaves the subscription in   *)
(* flight, and later chunks of the pair are still merged: a text chunk     *)
(* that follows the error is appended and the error message stays.         *)
C26_ErrorEventKeepsAccumulatedData ==
    [][/\ (Merged /\ MergedChunk.typename = "ChatCompletionSubscriptionError")
            => /\ MergedAfter.errorMessage = MergedChunk.message
               /\ MergedAfter.content = MergedBefore.content
               /\ MergedAfter.toolCalls = MergedBefore.toolCalls
               /\ MergedAfter.span = MergedBefore.span
               /\ MergedAfter.experimentRun = MergedBefore.experimentRun
               /\ instances' = instances
               /\ requests' = requests
       /\ (/\ Merged
           /\ MergedChunk.typename = "TextChunk"
           /\ "errorMessage" \in MergedBefore.keys)
            => /\ MergedAfter.content = MergedBefore.content \o MergedChunk.content
               /\ MergedAfter.errorMessage = MergedBefore.errorMessage]_vars

(* An error event arrived for a pair that had content, span and experiment *)
(* run; the instance still runs and its subscription is in flight.         *)
C26_Witness ==
    /\ lastOp.name = "subOnNext"
    /\ Len(arrived) = 3
    /\ arrived[3].response.typename = "ChatCompletionSubscriptionError"
    /\ LET data == ExistingExampleResponse(exampleResponsesMap, lastOp.id, "ex-1")
       IN  /\ data.errorMessage = "boom"
           /\ data.content = <<"H">>
           /\ data.span = "span-1"
    /\ \E i \in DOMAIN instances :
          instances[i].id = lastOp.id /\ instances[i].activeRunId # Null
    /\ RequestsFor(requests, lastOp.id) # {}

----------------------------------------------------------------------------
(* upsertInvocationParameterInput, position by position *)

UpsertInputs ==
    {[invocationName |-> "temperature", value |-> 1],
     [invocationName |-> "temperature", value |-> 2],
     [invocationName |-> "max_tokens", value |-> 1]}

NextUpsert ==
    \/ Len(instances) < MaxTableInstances /\ AddInstance
    \/ \E id \in Ids(instances) :
          UpdateModelConfig(id, "endpoint", "https://e", << >>)
    \/ \E id \in Ids(instances), input \in UpsertInputs :
          UpsertInvocationParameterInput(id, input)

SpecUpsert == InitEmptyProps /\ [][NextUpsert]_vars

(* C27: upsertInvocationParameterInput on an existing instance replaces,   *)
(* at its current position, the entry whose identity matches the input     *)
(* when one exists (list length and the order of all other entries         *)
(* unchanged) and otherwise appends the input as the last entry (all       *)
(* previous entries unchanged and in order); no other instance and no      *)
(* other field of the instance is changed.                                 *)
C27_UpsertReplacesInPlaceOrAppends ==
    [][(/\ lastOp'.name = "upsertInvocationParameterInput"
        /\ lastOp'.id \in Ids(instances))
          => /\ Len(instances') = Len(instances)
             /\ \A i \in DOMAIN instances :
                   IF instances[i].id = lastOp'.id
                   THEN LET old == instances[i].model.invocationParameters
                            new == instances'[i].model.invocationParameters
                        IN  /\ IF EntriesEqualTo(old, lastOp'.input) # {}
                               THEN /\ Len(new) = Len(old)
                                    /\ \A k \in DOMAIN old :
                                          new[k] =
                                             IF k \in EntriesEqualTo(old, lastOp'.input)
                                             THEN lastOp'.input ELSE old[k]
                               ELSE new = Append(old, lastOp'.input)
                            /\ [instances'[i] EXCEPT
                                    !.model.invocationParameters = old]
                                  = instances[i]
                   ELSE instances'[i] = instances[i]]_vars

(* The entry of the input's identity was replaced at the head of a list of *)
(* two, while another instance holds a different list.                     *)
C27_Witness ==
    /\ lastOp.name = "upsertInvocationParameterInput"
    /\ \E i, j \in DOMAIN instances :
          /\ instances[i].id = lastOp.id
          /\ instances[j].id # lastOp.id
          /\ Len(instances[i].model.invocationParameters) = 2
          /\ instances[i].model.invocationParameters[1] = lastOp.input
          /\ instances[i].model.invocationParameters[2] # lastOp.input
          /\ instances[j].model.invocationParameters # << >>
          /\ instances[j].model.invocationParameters
               # instances[i].model.invocationParameters

----------------------------------------------------------------------------
(* Runs come to an end: the view stays mounted, requests end *)

(* The request with identity k completes or errors. *)
RequestEnds(k) ==
    \E r \in requests :
        /\ r.rid = k
        /\ \/ SubOnCompleted(r)
           \/ SubOnError(r)
           \/ \E response \in TableMutationResponses, hasErrors \in BOOLEAN :
                 MutOnCompleted(r, response, hasErrors)
           \/ MutOnError(r)

NextLive ==
    \/ Len(instances) < MaxTableInstances /\ AddInstance
    \/ RunPlaygroundInstancesTracked
    \/ \E b \in BOOLEAN : SetStreaming(b)
    \/ Mount
    \/ RunEffect
    \/ \E k \in 0..MaxRequests : RequestEnds(k)

(* React runs a due effect; every issued request completes or errors. *)
SpecLive ==
    /\ InitEmptyProps
    /\ [][NextLive]_vars
    /\ WF_vars(RunEffect)
    /\ \A k \in 0..MaxRequests : WF_vars(RequestEnds(k))

ActiveRun(id) ==
    \E i \in DOMAIN instances : instances[i].id = id /\ instances[i].activeRunId # Null

(* C28: while the view stays mounted and every issued generation request   *)
(* eventually completes or errors, every instance whose activeRunId        *)
(* becomes non-null eventually has a null activeRunId again, for every     *)
(* sequence of runPlaygroundInstances calls, including a call made while   *)
(* some instances of an earlier run are still running.                     *)
C28_EveryRunEventuallyEnds ==
    \A id \in InstanceIds : (mounted /\ ActiveRun(id)) ~> ~ActiveRun(id)

----------------------------------------------------------------------------
(* Callbacks of a request started for an earlier run *)

(* The request was started for a run of its instance that is no longer    *)
(* the instance's last run.                                                *)
StartedForEarlierRun(r) ==
    /\ r.instanceId \in DOMAIN lastRunOf
    /\ r.runId # lastRunOf[r.instanceId]

EndCallbacks ==
    {"subOnCompleted", "subOnError", "mutOnCompleted", "mutOnCompletedWithErrors",
     "mutOnError"}

(* C29: a completion or error callback of a generation request that was    *)
(* started for an earlier run of an instance never clears the activeRunId  *)
(* a later runPlaygroundInstances call gave that instance and never writes *)
(* the earlier run's results into the example-responses map, in any        *)
(* interleaving of request callbacks with run starts, streaming or not.    *)
C29_EarlierRunCallbackChangesNothing ==
    [][lastOp'.name \in EndCallbacks =>
          \A r \in requests :
             (/\ \A q \in requests' : q.rid # r.rid
              /\ StartedForEarlierRun(r))
               => /\ \A i \in DOMAIN instances :
                        instances[i].id = r.instanceId
                           => instances'[i].activeRunId = instances[i].activeRunId
                  /\ exampleResponsesMap' = exampleResponsesMap]_vars

----------------------------------------------------------------------------
(* Frame of updateExampleResponsesMap *)

(* C30: updateExampleResponsesMap changes at most the entry of the         *)
(* (instanceId, datasetExampleId) pair of the chunk it applies: the        *)
(* entries of every other example of that instance and of every other      *)
(* instance are the same before and after, and a chunk whose               *)
(* datasetExampleId is null leaves the map as it was.                      *)
C30_UpdateChangesOnlyTheChunksPair ==
    [][lastOp'.name = "subOnNext" =>
          IF Merged
          THEN /\ DOMAIN exampleResponsesMap'
                    = DOMAIN exampleResponsesMap \cup {lastOp'.id}
               /\ \A instanceId \in DOMAIN exampleResponsesMap :
                     instanceId # lastOp'.id
                        => exampleResponsesMap'[instanceId]
                             = exampleResponsesMap[instanceId]
               /\ LET before == ExistingInstanceResponses(exampleResponsesMap,
                                                           lastOp'.id)
                      after == exampleResponsesMap'[lastOp'.id]
                  IN  /\ DOMAIN after
                           = DOMAIN before \cup {MergedChunk.datasetExampleId}
                      /\ \A exampleId \in DOMAIN before :
                            exampleId # MergedChunk.datasetExampleId
                               => after[exampleId] = before[exampleId]
          ELSE exampleResponsesMap' = exampleResponsesMap]_vars

(* A chunk was merged for one example of an instance while the map held   *)
(* another example of that instance and an example of another instance.   *)
C30_Witness ==
    /\ lastOp.name = "subOnNext"
    /\ Len(arrived) = 3
    /\ arrived[3].instanceId = lastOp.id
    /\ \E k, l \in 1..2 :
          /\ arrived[k].instanceId = lastOp.id
          /\ arrived[k].response.datasetExampleId
               # arrived[3].response.datasetExampleId
          /\ arrived[l].instanceId # lastOp.id
    /\ \A k \in 1..2 :
          arrived[k].response.datasetExampleId
             \in DOMAIN exampleResponsesMap[arrived[k].instanceId]

====
